---- MODULE Spec2Model ----
(***************************************************************************)
(* The profile router of careerConnector (routes/api/profile), as a state *)
(* machine over the three document collections it touches: Profile, User  *)
(* and Post.  Every store call a handler awaits is one step; the code     *)
(* between two awaits runs with the step that precedes it.                *)
(***************************************************************************)
EXTENDS Integers, Sequences, FiniteSets, Bags, TLC

\* ------------------------------------------------------------------ bounds
\* Entry identifiers handed out to experience / education sub-documents.
MaxIds == 2
\* Requests that may be in flight at once.
MaxInFlight == 2
\* Length of the skills strings the skills specification enumerates.
MaxSkillLen == 3

\* ------------------------------------------------------------ value spaces
UserIds == {"u1", "u2"}
\* The users whose requests are explored; the others' records stand by.
Callers == {"u1"}
\* A well-formed ObjectId that belongs to no user, and a string that is not
\* an ObjectId at all (GET /user/:user_id takes any string).
AbsentId == "u9"
MalformedId == "bad"
ParamIds == UserIds \cup {AbsentId, MalformedId}


ScalarKeys == {"company", "website", "location", "bio", "githubusername"}
SocialKeys == {"youtube", "twitter", "linkedin", "facebook", "instagram"}

\* The paths of a Profile document.
DocKeys ==
    ScalarKeys \cup {"user", "status", "skills", "social", "experiences",
                     "education"}

\* The two embedded sequences and the fields their entries carry.
Kinds == {"experiences", "education"}

EntryKeys(kind) ==
    IF kind = "experiences"
    THEN {"title", "company", "location", "from", "to", "current",
          "description"}
    ELSE {"school", "degree", "fieldOfStudy", "from", "to", "current",
          "description"}

RequiredKeys(kind) ==
    IF kind = "experiences"
    THEN {"title", "company", "from"}
    ELSE {"school", "degree", "fieldOfStudy", "from"}

\* Entry bodies: one with only the required fields, one with the first
\* required field missing.
EntryBodies(kind) ==
    { [k \in EntryKeys(kind) |-> IF k \in RequiredKeys(kind) THEN "e" ELSE ""],
      [k \in EntryKeys(kind) |-> IF k \in {"title", "school"} THEN "" ELSE "e"] }

\* The ids a DELETE .../:id may name: 0 is an id the store never hands out.
ParamEntryIds == 0..MaxIds

\* A request body: every text field is a string, "" standing for a field
\* that is missing or empty; skills is a string spelt as its characters.
BlankBody ==
    [company |-> "", website |-> "", location |-> "", bio |-> "",
     githubusername |-> "", status |-> "", youtube |-> "", twitter |-> "",
     linkedin |-> "", facebook |-> "", instagram |-> "", skills |-> <<>>]

\* The skills strings of the skills specification: every string of at most
\* MaxSkillLen characters over a letter, a blank and a comma, and
\* "a, b ,c", the shape of "node, react , express".
SkillChars == {"a", " ", ","}

SkillInputs ==
    UNION { [1..n -> SkillChars] : n \in 0..MaxSkillLen }
    \cup { <<"a", ",", " ", "b", " ", ",", "c">> }

FullBody ==
    [company |-> "x", website |-> "x", location |-> "x", bio |-> "x",
     githubusername |-> "x", status |-> "dev", youtube |-> "x",
     twitter |-> "x", linkedin |-> "x", facebook |-> "x", instagram |-> "x",
     skills |-> <<"a", ",", " ", "b", " ", ",", "c">>]

PartialBody ==
    [BlankBody EXCEPT !.status = "dev", !.skills = <<" ", "a", ",">>,
                      !.company = "y", !.twitter = "y"]

Bodies ==
         { FullBody, PartialBody,
           [BlankBody EXCEPT !.skills = <<"a">>],
           [BlankBody EXCEPT !.status = "dev"],
           BlankBody }

\* ------------------------------------------------------------------- state
VARIABLES
    profiles,   \* the Profile collection, in insertion order
    users,      \* the ids of the User collection
    posts,      \* the Post collection: records [id, user]
    nextId,     \* the next sub-document id the store hands out
    req,        \* the requests in flight (a bag: two may be alike)
    resp        \* the response sent last

vars == <<profiles, users, posts, nextId, req, resp>>

\* A request between two store calls: its handler, its caller, the store
\* call it awaits, its body, and what its findOne returned.
Request(op, u, pc, body, found) ==
    [op |-> op, user |-> u, pc |-> pc, body |-> body, found |-> found]

Await(rq) == req (+) SetToBag({rq})

Done(rq) == req (-) SetToBag({rq})

NoResp == [status |-> 0, errors |-> {}, logged |-> ""]

\* res.status(status).json(...): the status, the fields of an
\* { errors: [...] } body, and the err.message the catch block logged (""
\* for nothing, "store" for a store call that was rejected).
Response(status, errs, logged) ==
    [status |-> status, errors |-> errs, logged |-> logged]

\* ---------------------------------------------------------------- helpers
\* String.prototype.trim over the characters of the model.
RECURSIVE TrimLeft(_)
TrimLeft(s) ==
    IF s # <<>> /\ Head(s) = " " THEN TrimLeft(Tail(s)) ELSE s

RECURSIVE TrimRight(_)
TrimRight(s) ==
    IF s # <<>> /\ s[Len(s)] = " "
    THEN TrimRight(SubSeq(s, 1, Len(s) - 1))
    ELSE s

TrimStartOnly(s) == TrimLeft(s)

Trim(s) == TrimRight(TrimLeft(s))

\* String.prototype.split(','): the pieces between the commas, in order.
RECURSIVE SplitFrom(_, _)
SplitFrom(s, piece) ==
    IF s = <<>> THEN <<piece>>
    ELSE IF Head(s) = "," THEN <<piece>> \o SplitFrom(Tail(s), <<>>)
    ELSE SplitFrom(Tail(s), Append(piece, Head(s)))

Split(s) == SplitFrom(s, <<>>)

\* skills.split(',').map((skill) => skill.trim())
SplitTrim(s) == [i \in 1..Len(Split(s)) |-> Trim(Split(s)[i])]

ValidationErrorsStatusOnly(body, required) ==
    { k \in required \cap {"status"} : body[k] = "" }

\* validationResult(req): the fields whose check(...).not().isEmpty() fails.
ValidationErrors(body, required) ==
    { k \in required :
        IF k = "skills" THEN body.skills = <<>> ELSE body[k] = "" }

\* profilefields.social: only the keys the body provides.
SocialFields(body) ==
    [k \in {s \in SocialKeys : body[s] # ""} |-> body[k]]

\* profilefields: user, the provided scalars, skills, and social always.
ProfileFields(u, body) ==
    LET present == {k \in ScalarKeys \cup {"status"} : body[k] # ""}
                   \cup (IF body.skills # <<>> THEN {"skills"} ELSE {})
                   \cup {"user", "social"}
    IN [k \in present |->
          CASE k = "user" -> u
            [] k = "social" -> SocialFields(body)
            [] k = "skills" -> SplitTrim(body.skills)
            [] OTHER -> body[k]]


\* new Profile(profilefields): unset paths take the schema's empty values.
NewProfile(pf) ==
    [k \in DocKeys |->
        IF k \in DOMAIN pf THEN pf[k]
        ELSE IF k \in {"skills", "social", "experiences", "education"}
             THEN <<>> ELSE ""]

\* { $set: profilefields }: every top-level path of the patch replaces the
\* stored one, the social object as a whole; the other paths stay.
SetFields(doc, pf) ==
    [k \in DOMAIN doc |-> IF k \in DOMAIN pf THEN pf[k] ELSE doc[k]]

\* The value a social key has in a stored mapping ("" when it is not set).
SocialValue(social, k) == IF k \in DOMAIN social THEN social[k] ELSE ""

FindAny(coll, u) == IF Len(coll) > 0 THEN 1 ELSE 0

\* Profile.findOne({ user }): the position of the first match, 0 for null.
FindOne(coll, u) ==
    IF \E i \in 1..Len(coll) : coll[i].user = u
    THEN CHOOSE i \in 1..Len(coll) :
            /\ coll[i].user = u
            /\ \A j \in 1..(i - 1) : coll[j].user # u
    ELSE 0

\* Profile.findOneAndUpdate({ user }, { $set }, { new: true }), no upsert.
FindOneAndUpdate(coll, u, pf) ==
    IF FindOne(coll, u) = 0 THEN coll
    ELSE [coll EXCEPT ![FindOne(coll, u)] = SetFields(@, pf)]

\* Profile.findOneAndRemove({ user }).
FindOneAndRemove(coll, u) ==
    IF FindOne(coll, u) = 0 THEN coll
    ELSE [i \in 1..(Len(coll) - 1) |->
            IF i < FindOne(coll, u) THEN coll[i] ELSE coll[i + 1]]

InsertAlways(coll, doc) == TRUE

\* The Profile schema declares user unique: the store refuses a second
\* document for the same user (a duplicate-key error on save).
InsertAllowed(coll, doc) == \A i \in 1..Len(coll) : coll[i].user # doc.user

DeleteNone(coll, u) == coll

\* Post.deleteMany({ user }).
DeleteMany(coll, u) == {p \in coll : p.user # u}

\* array.map((item) => item.id).indexOf(id), 0-based, -1 when absent.
IndexOf(seq, id) ==
    IF \E i \in 1..Len(seq) : seq[i].id = id
    THEN (CHOOSE i \in 1..Len(seq) :
            /\ seq[i].id = id
            /\ \A j \in 1..(i - 1) : seq[j].id # id) - 1
    ELSE -1

\* Array.prototype.splice(start, 1): a negative start counts from the end.
Splice(seq, start) ==
    LET from == IF start < 0
                THEN (IF Len(seq) + start < 0 THEN 0 ELSE Len(seq) + start)
                ELSE (IF start > Len(seq) THEN Len(seq) ELSE start)
    IN IF from >= Len(seq) THEN seq
       ELSE [i \in 1..(Len(seq) - 1) |->
                IF i <= from THEN seq[i] ELSE seq[i + 1]]

PushBack(seq, entry) == Append(seq, entry)

\* Array.prototype.unshift(entry).
Unshift(seq, entry) == <<entry>> \o seq

\* The sub-document an add stores: the body's fields and a fresh id.
NewEntry(kind, body, id) ==
    [k \in EntryKeys(kind) \cup {"id"} |-> IF k = "id" THEN id ELSE body[k]]

ProfilesOf(u) == {i \in 1..Len(profiles) : profiles[i].user = u}

HasProfile(u) == ProfilesOf(u) # {}

PostsOf(u) == {p \in posts : p.user = u}

\* The profile of the bystander: created and filled by earlier requests.
BystanderProfile ==
    [NewProfile(ProfileFields("u2", FullBody)) EXCEPT
        !["experiences"] =
            <<NewEntry("experiences",
                       [k \in EntryKeys("experiences") |-> "e"], 91)>>,
        !["education"] =
            <<NewEntry("education",
                       [k \in EntryKeys("education") |-> "e"], 92)>>]

\* ------------------------------------------------------------------- Init
Init ==
    /\ profiles = <<BystanderProfile>>
    /\ users = UserIds
    /\ posts = { [id |-> 1, user |-> "u1"], [id |-> 2, user |-> "u1"],
                 [id |-> 3, user |-> "u2"] }
    /\ nextId = 1
    /\ req = EmptyBag
    /\ resp = NoResp

\* ------------------------------------------------- POST / (upsertProfile)
\* Validation, the patch, and the first store call: Profile.findOne.
UpsertRequest(u, body) ==
    /\ BagCardinality(req) < MaxInFlight
    /\ UNCHANGED <<profiles, users, posts, nextId>>
    /\ LET errs == ValidationErrors(body, {"status", "skills"})
       IN IF errs # {}
          THEN /\ resp' = Response(400, errs, "")
               /\ UNCHANGED req
          ELSE \E ok \in BOOLEAN :
                 IF ok
                 THEN /\ req' = Await(Request("upsertProfile", u, "write",
                                              body, FindOne(profiles, u) # 0))
                      /\ UNCHANGED resp
                 ELSE /\ resp' = Response(500, {}, "store")
                      /\ UNCHANGED req

\* The second store call: findOneAndUpdate when findOne found a profile,
\* save of a new document otherwise.
UpsertWrite(rq) ==
    /\ BagIn(rq, req)
    /\ rq.op = "upsertProfile"
    /\ rq.pc = "write"
    /\ req' = Done(rq)
    /\ UNCHANGED <<users, posts, nextId>>
    /\ LET u == rq.user
           pf == ProfileFields(u, rq.body)
       IN \E ok \in BOOLEAN :
            IF ~ok
            THEN /\ resp' = Response(500, {}, "store")
                 /\ UNCHANGED profiles
            ELSE IF rq.found
            THEN /\ profiles' = FindOneAndUpdate(profiles, u, pf)
                 /\ resp' = Response(200, {}, "")
            ELSE IF InsertAllowed(profiles, NewProfile(pf))
            THEN /\ profiles' = Append(profiles, NewProfile(pf))
                 /\ resp' = Response(200, {}, "")
            ELSE /\ resp' = Response(500, {}, "E11000")
                 /\ UNCHANGED profiles

\* --------------------------------------------- DELETE / (deleteOwnProfile)
\* The handler of part_000; its first store call: Post.deleteMany.
DeleteRequest(u) ==
    /\ BagCardinality(req) < MaxInFlight
    /\ UNCHANGED <<profiles, users, nextId>>
    /\ \E ok \in BOOLEAN :
         IF ok
         THEN /\ posts' = DeleteMany(posts, u)
              /\ req' = Await(Request("deleteOwnProfile", u, "rmProfile",
                                      BlankBody, FALSE))
              /\ UNCHANGED resp
         ELSE /\ resp' = Response(500, {}, "store")
              /\ UNCHANGED <<posts, req>>

\* The handler of routes/api/profile.js, which removes no posts; its first
\* store call: Profile.findOneAndRemove.
DeleteRequestNoPosts(u) ==
    /\ BagCardinality(req) < MaxInFlight
    /\ UNCHANGED <<posts, users, nextId>>
    /\ \E ok \in BOOLEAN :
         IF ok
         THEN /\ profiles' = FindOneAndRemove(profiles, u)
              /\ req' = Await(Request("deleteOwnProfileNoPosts", u, "rmUser",
                                      BlankBody, FALSE))
              /\ UNCHANGED resp
         ELSE /\ resp' = Response(500, {}, "store")
              /\ UNCHANGED <<profiles, req>>

\* Profile.findOneAndRemove, after the posts.
DeleteProfile(rq) ==
    /\ BagIn(rq, req)
    /\ rq.op = "deleteOwnProfile"
    /\ rq.pc = "rmProfile"
    /\ UNCHANGED <<posts, users, nextId>>
    /\ \E ok \in BOOLEAN :
         IF ok
         THEN /\ profiles' = FindOneAndRemove(profiles, rq.user)
              /\ req' = Done(rq) (+) SetToBag({[rq EXCEPT !.pc = "rmUser"]})
              /\ UNCHANGED resp
         ELSE /\ resp' = Response(500, {}, "store")
              /\ req' = Done(rq)
              /\ UNCHANGED profiles

\* User.findOneAndRemove, then the 200 response.
DeleteUser(rq) ==
    /\ BagIn(rq, req)
    /\ rq.op \in {"deleteOwnProfile", "deleteOwnProfileNoPosts"}
    /\ rq.pc = "rmUser"
    /\ req' = Done(rq)
    /\ UNCHANGED <<profiles, posts, nextId>>
    /\ \E ok \in BOOLEAN :
         IF ok
         THEN /\ users' = users \ {rq.user}
              /\ resp' = Response(200, {}, "")
         ELSE /\ resp' = Response(500, {}, "store")
              /\ UNCHANGED users

\* ------------------------------ PUT /experience, PUT /education (add...)
\* The message of the TypeError that profile.experiences (.education)
\* throws when findOne returned null.
NullDeref(kind) == "Cannot read property '" \o kind \o "' of null"

\* Validation, Profile.findOne, unshift, profile.save().  The document's
\* version check makes a save that lost a race fail, so the find and the
\* save are one step, and either store call may fail.
AddEntry(u, kind, body) ==
    /\ nextId <= MaxIds
    /\ UNCHANGED <<users, posts, req>>
    /\ LET errs == ValidationErrors(body, RequiredKeys(kind))
           at == FindOne(profiles, u)
       IN IF errs # {}
          THEN /\ resp' = Response(400, errs, "")
               /\ UNCHANGED <<profiles, nextId>>
          ELSE \E ok \in BOOLEAN :
                 IF ok /\ at # 0
                 THEN /\ profiles' = [profiles EXCEPT ![at][kind] =
                             Unshift(@, NewEntry(kind, body, nextId))]
                      /\ nextId' = nextId + 1
                      /\ resp' = Response(200, {}, "")
                 ELSE /\ resp' = Response(500, {},
                             IF ok THEN NullDeref(kind) ELSE "store")
                      /\ UNCHANGED <<profiles, nextId>>

\* --------------- DELETE /experience/:exp_id, DELETE /education/:edu_id
\* Profile.findOne, indexOf, splice(removeIndex, 1), profile.save().
RemoveEntry(u, kind, id) ==
    /\ UNCHANGED <<users, posts, req, nextId>>
    /\ LET at == FindOne(profiles, u)
       IN \E ok \in BOOLEAN :
            IF ok /\ at # 0
            THEN /\ profiles' = [profiles EXCEPT ![at][kind] =
                        Splice(@, IndexOf(@, id))]
                 /\ resp' = Response(200, {}, "")
            ELSE /\ resp' = Response(500, {},
                        IF ok THEN NullDeref(kind) ELSE "store")
                 /\ UNCHANGED profiles

\* ------------------------------------ GET /user/:user_id (getProfileByUser)
\* part_000: findOne, then profile.length on the result.  A malformed id
\* is a CastError of kind ObjectId (400); null.length is a TypeError (500).
GetProfileByUser(id) ==
    /\ UNCHANGED <<profiles, users, posts, nextId, req>>
    /\ \E ok \in BOOLEAN :
         resp' = IF id = MalformedId
                 THEN Response(400, {}, "CastError")
                 ELSE IF ~ok
                 THEN Response(500, {}, "store")
                 ELSE IF FindOne(profiles, id) = 0
                 THEN Response(500, {},
                               "Cannot read property 'length' of null")
                 ELSE Response(200, {}, "")

\* routes/api/profile.js: find, then a test of the undeclared name profile:
\* a ReferenceError, and a catch that answers 500 whatever the error (a
\* rejected store call would be logged and answered the same way).
GetProfileByUserUndeclared(id) ==
    /\ UNCHANGED <<profiles, users, posts, nextId, req>>
    /\ resp' = Response(500, {},
                        IF id = MalformedId THEN "CastError"
                        ELSE "profile is not defined")

\* ------------------------------------------------------------------- Next
Next ==
    \/ \E u \in Callers, body \in Bodies : UpsertRequest(u, body)
    \/ \E rq \in BagToSet(req) : UpsertWrite(rq)
    \/ \E u \in Callers : DeleteRequest(u)
    \/ \E u \in Callers : DeleteRequestNoPosts(u)
    \/ \E rq \in BagToSet(req) : DeleteProfile(rq)
    \/ \E rq \in BagToSet(req) : DeleteUser(rq)
    \/ \E u \in Callers, kind \in Kinds :
          \E body \in EntryBodies(kind) : AddEntry(u, kind, body)
    \/ \E u \in Callers, kind \in Kinds, id \in ParamEntryIds :
          RemoveEntry(u, kind, id)
    \/ \E id \in ParamIds : GetProfileByUser(id)
    \/ \E id \in ParamIds : GetProfileByUserUndeclared(id)

Spec == Init /\ [][Next]_vars

\* The skills specification: upserts of one caller, one at a time, over
\* every skills string of SkillInputs.
SkillsNext ==
    \/ \E u \in Callers, s \in SkillInputs :
          /\ req = EmptyBag
          /\ UpsertRequest(u, [BlankBody EXCEPT !.status = "dev",
                                                !.skills = s])
    \/ \E rq \in BagToSet(req) : UpsertWrite(rq)

SpecSkills == Init /\ [][SkillsNext]_vars

\* ---------------------------------------------------------------- claims
\* What a step leaves of the users other than u: their profiles, in order,
\* their User records and their posts.
OthersOf(coll, u) == SelectSeq(coll, LAMBDA d : d.user # u)

OthersUnchanged(u) ==
    /\ OthersOf(profiles', u) = OthersOf(profiles, u)
    /\ users' \ {u} = users \ {u}
    /\ {p \in posts' : p.user # u} = {p \in posts : p.user # u}

\* C1: removeExperience / removeEducation with an id that does not occur in
\* the caller's sequence leaves that sequence exactly as it was.
C1_RemoveMissingIdIsNoOp ==
    [][\A u \in Callers, kind \in Kinds, id \in ParamEntryIds :
          ( /\ RemoveEntry(u, kind, id)
            /\ HasProfile(u)
            /\ \A i \in 1..Len(profiles[FindOne(profiles, u)][kind]) :
                  profiles[FindOne(profiles, u)][kind][i].id # id )
          => /\ HasProfile(u)'
             /\ profiles'[FindOne(profiles, u)][kind]
                  = profiles[FindOne(profiles, u)][kind]]_vars

\* C2: an upsert for a user who already has a profile keeps the stored value
\* of every scalar field and of every social key the body omits.
C2_OmittedFieldsKept ==
    [][\A rq \in BagToSet(req) :
          ( /\ UpsertWrite(rq)
            /\ rq.found
            /\ HasProfile(rq.user) )
          => LET at == FindOne(profiles, rq.user)
                 body == rq.body
             IN /\ \A k \in ScalarKeys :
                      body[k] = "" => profiles'[at][k] = profiles[at][k]
                /\ \A k \in SocialKeys :
                      body[k] = "" =>
                          SocialValue(profiles'[at].social, k)
                            = SocialValue(profiles[at].social, k)]_vars

\* C3: GET /user/:user_id answers 400 for every id that has no profile,
\* malformed or well-formed, whenever the store itself answered.
C3_NoProfileIs400 ==
    [][\A id \in ParamIds :
          ( /\ GetProfileByUser(id) \/ GetProfileByUserUndeclared(id)
            /\ FindOne(profiles, id) = 0
            /\ resp'.logged # "store" )
          => resp'.status = 400]_vars

\* C4: when deleteOwnProfile answers 200 the store holds no Profile, no User
\* and no Post of the caller, and every step of the request leaves the
\* records of the other users as they were.
C4_DeleteRemovesAll ==
    [][/\ \A rq \in BagToSet(req) :
            /\ ( DeleteUser(rq) /\ resp'.status = 200 )
                 => /\ ProfilesOf(rq.user)' = {}
                    /\ rq.user \notin users'
                    /\ \A p \in posts' : p.user # rq.user
            /\ ( DeleteProfile(rq) \/ DeleteUser(rq) )
                 => OthersUnchanged(rq.user)
       /\ \A u \in Callers :
            ( DeleteRequest(u) \/ DeleteRequestNoPosts(u) )
              => OthersUnchanged(u)]_vars

C6_AddPrepends ==
    [][\A u \in Callers, kind \in Kinds :
         \A body \in EntryBodies(kind) :
          ( /\ nextId' = nextId + 1
            /\ AddEntry(u, kind, body)
            /\ resp'.status = 200 )
          => /\ ProfilesOf(u) # {}
             /\ Len(profiles') = Len(profiles)
             /\ \A i \in 1..Len(profiles) :
                  IF i \in ProfilesOf(u)
                  THEN /\ \A k \in DocKeys \ {kind} :
                            profiles'[i][k] = profiles[i][k]
                       /\ Len(profiles'[i][kind]) = Len(profiles[i][kind]) + 1
                       /\ \A k \in EntryKeys(kind) :
                            profiles'[i][kind][1][k] = body[k]
                       /\ \A j \in 1..Len(profiles[i][kind]) :
                            /\ profiles'[i][kind][j + 1] = profiles[i][kind][j]
                            /\ profiles'[i][kind][1].id # profiles[i][kind][j].id
                  ELSE profiles'[i] = profiles[i]]_vars

\* E1 then E2 were added to the empty sequence: it reads [E2, E1].
C6_Witness ==
    /\ resp.status = 200
    /\ \E i \in ProfilesOf("u1") :
          /\ Len(profiles[i].experiences) = 2
          /\ profiles[i].experiences[1].id = 2
          /\ profiles[i].experiences[2].id = 1

\* C7: an upsert whose status or skills is missing or empty answers 400 with
\* one field error per missing field, and goes no further: no store call is
\* issued for it and the store is as it was.
C7_InvalidUpsertRejected ==
    [][\A u \in Callers, body \in Bodies :
          ( /\ UpsertRequest(u, body)
            /\ body.status = "" \/ body.skills = <<>> )
          => /\ resp'.status = 400
             /\ "status" \in resp'.errors <=> body.status = ""
             /\ "skills" \in resp'.errors <=> body.skills = <<>>
             /\ req' = req
             /\ profiles' = profiles
             /\ users' = users
             /\ posts' = posts]_vars

\* Both fields were missing, for a caller whose profile exists.
C7_Witness ==
    /\ resp.status = 400
    /\ resp.errors = {"status", "skills"}
    /\ ProfilesOf("u1") # {}

\* The comma-separated pieces of a string, by position, and what trimming
\* a piece means, stated without the recursion of Split and Trim.
Commas(s) == {i \in 1..Len(s) : s[i] = ","}

NthComma(s, k) ==
    CHOOSE i \in Commas(s) : Cardinality({j \in Commas(s) : j < i}) = k - 1

Piece(s, k) ==
    SubSeq(s,
           IF k = 1 THEN 1 ELSE NthComma(s, k - 1) + 1,
           IF k = Cardinality(Commas(s)) + 1 THEN Len(s)
           ELSE NthComma(s, k) - 1)

IsTrimmed(t) == t = <<>> \/ (t[1] # " " /\ t[Len(t)] # " ")

IsTrimOf(t, p) ==
    /\ IsTrimmed(t)
    /\ \E i \in 0..Len(p), j \in 0..Len(p) :
          /\ i + j <= Len(p)
          /\ t = SubSeq(p, i + 1, Len(p) - j)
          /\ \A k \in 1..i : p[k] = " "
          /\ \A k \in (Len(p) - j + 1)..Len(p) : p[k] = " "

IsSplitTrimOf(list, s) ==
    /\ Len(list) = Cardinality(Commas(s)) + 1
    /\ \A k \in 1..Len(list) : IsTrimOf(list[k], Piece(s, k))

\* C8: after a successful upsert the stored skills is the list of the
\* comma-separated pieces of the input, each trimmed, in input order; no
\* stored element starts or ends with a blank or holds a comma.
C8_SkillsSplitAndTrimmed ==
    [][\A rq \in BagToSet(req) :
          ( UpsertWrite(rq) /\ resp'.status = 200 )
          => \A i \in 1..Len(profiles') :
               profiles'[i].user = rq.user
               => /\ IsSplitTrimOf(profiles'[i].skills, rq.body.skills)
                  /\ \A k \in 1..Len(profiles'[i].skills) :
                       /\ IsTrimmed(profiles'[i].skills[k])
                       /\ Commas(profiles'[i].skills[k]) = {}]_vars

\* " a," was stored as ["a", ""].
C8_Witness ==
    /\ resp.status = 200
    /\ \E i \in ProfilesOf("u1") : profiles[i].skills = << <<"a">>, <<>> >>

\* C9: the handler of part_000 removes Posts, then Profile, then User.  A
\* request reaches the Profile step only by the step that leaves no post of
\* the user, and the User step only by the step that leaves no profile of
\* the user; the User record goes in the last step alone.  A step that
\* fails answers 500, changes nothing, and ends the request: what was
\* removed stays removed and what was not is not removed by it.
C9_DeleteOrder ==
    [][/\ \A u \in Callers :
            DeleteRequest(u)
            => /\ profiles' = profiles
               /\ users' = users
               /\ IF req' # req
                  THEN \A p \in posts' : p.user # u
                  ELSE resp'.status = 500 /\ posts' = posts
       /\ \A rq \in BagToSet(req) :
            /\ DeleteProfile(rq)
                 => /\ PostsOf(rq.user) = {}
                    /\ posts' = posts
                    /\ users' = users
                    /\ IF req' = Done(rq)
                       THEN /\ resp'.status = 500
                            /\ profiles' = profiles
                       ELSE /\ req' = Done(rq)
                                      (+) SetToBag({[rq EXCEPT !.pc = "rmUser"]})
                            /\ ProfilesOf(rq.user)' = {}
            /\ ( DeleteUser(rq) /\ rq.op = "deleteOwnProfile" )
                 => /\ PostsOf(rq.user) = {}
                    /\ posts' = posts
                    /\ profiles' = profiles
                    /\ req' = Done(rq)
                    /\ IF resp'.status = 200
                       THEN users' = users \ {rq.user}
                       ELSE resp'.status = 500 /\ users' = users]_vars

\* The Profile step failed: the posts are gone, the profile and the user
\* are still there.
C9_Witness ==
    /\ resp.status = 500
    /\ resp.logged = "store"
    /\ req = EmptyBag
    /\ PostsOf("u1") = {}
    /\ ProfilesOf("u1") # {}
    /\ "u1" \in users

\* C10, as claimed: a caller without a profile gets 500 from the four
\* handlers, and the store is unchanged.
C10_NoProfileIs500 ==
    [][\A u \in Callers, kind \in Kinds :
          /\ \A body \in EntryBodies(kind) :
               ( ProfilesOf(u) = {} /\ AddEntry(u, kind, body) )
               => /\ resp'.status = 500
                  /\ UNCHANGED <<profiles, users, posts>>
          /\ \A id \in ParamEntryIds :
               ( ProfilesOf(u) = {} /\ RemoveEntry(u, kind, id) )
               => /\ resp'.status = 500
                  /\ UNCHANGED <<profiles, users, posts>>]_vars

\* C10, amended: the adds answer 500 when the body passes validation and
\* 400 when it does not; the removes answer 500; the store is unchanged.
C10_NoProfileIs500WhenValid ==
    [][\A u \in Callers, kind \in Kinds :
          /\ \A body \in EntryBodies(kind) :
               ( ProfilesOf(u) = {} /\ AddEntry(u, kind, body) )
               => /\ resp'.status =
                       IF \A k \in RequiredKeys(kind) : body[k] # ""
                       THEN 500 ELSE 400
                  /\ UNCHANGED <<profiles, users, posts>>
          /\ \A id \in ParamEntryIds :
               ( ProfilesOf(u) = {} /\ RemoveEntry(u, kind, id) )
               => /\ resp'.status = 500
                  /\ UNCHANGED <<profiles, users, posts>>]_vars

\* An add for a caller without a profile dereferenced null and answered 500.
C10_Witness ==
    /\ resp.status = 500
    /\ resp.logged = NullDeref("experiences")
    /\ ProfilesOf("u1") = {}

====
